---------------------------- MODULE Spec2Model ----------------------------
(***************************************************************************)
(* Model of the skimap route pipeline.                                     *)
(*                                                                         *)
(*  - precompute_routes.js (src/unnamed/part_005): the acquisition run,    *)
(*    asyncPool + fetchRoute + the worker closure + the final write.       *)
(*  - pipeline/scripts/build_corridors.js: resampleLineWithProgress,       *)
(*    cellId, undirectedKey and the fold/filter/sort of main().            *)
(*                                                                         *)
(* JavaScript runs every continuation to completion: between two I/O or    *)
(* timer events the whole microtask chain (worker continuation, the        *)
(* splice callback, the resumed for-loop of asyncPool, the final write)    *)
(* runs without interleaving.  Each action below is one such event with    *)
(* its whole chain.                                                        *)
(***************************************************************************)
EXTENDS Integers, Sequences, FiniteSets, TLC

\* ------------------------------------------------------------------ bounds
MaxResorts == 3
MaxLimit == 2
\* the two-run specification repeats the run: a shorter resort list
MaxResortsTwoRuns == 2
\* the lines resampled: coordinates 0..MaxCoord, at most MaxVerts vertices
MaxCoord == 3
MaxVerts == 3
MaxStep == 3
\* the corridor build: features per Route Store, --minCount
MaxRoutes == 2
MaxMinCount == 3
\* crossings folded between given cells
MaxCrossings == 3
\* resorts of the acquisition-to-extractor chain
MaxResortsTravel == 2
\* runs of the extractor over one home
MaxExtractRuns == 3
\* resorts of the pipeline run twice
MaxResortsPipeline == 1
\* resorts of the runs whose command line and input files vary
MaxResortsPreflight == 1
\* resorts of the runs in which a request may never complete
MaxResortsNet == 3
\* points the resampler is followed for beyond those a line can hold
MaxExtra == 2
\* the front-end loader: home profiles, calls of load
MaxHomes == 2
MaxLoads == 3

\* --------------------------------------------------------------- constants
\* for (let attempt = 1; attempt <= 4; attempt++)
MaxAttempts == 4

VARIABLES
  nResorts,    \* resorts.length: the resort list is 1..nResorts, in input order
  limit,       \* concurrency
  nextItem,    \* position of asyncPool's for-of iterator
  executing,   \* asyncPool's executing array (items whose e is pending)
  item,        \* per resort: phase of its worker, attempt, last error
  feats,       \* feats array: resort of each pushed feature, in push order
  ok, fail,    \* the counters
  mainpc,      \* where main() is: "start", "awaitRace", "awaitAll", "exited"
  outFile,     \* the Route Store file: <<>> absent, <<features>> present
  exitCode,    \* -1 while running, then the process exit code
  prevFile,    \* the Route Store file as it was when this run started
  \* build_corridors.js main()
  stepM, gridM, minCount,   \* --step, --grid, --minCount
  folded,      \* the features of fc.features the fold loop has been through
  segments,    \* the segments Map, in insertion order
  corrpc,      \* "idle", "fold", "done"
  corrOut,     \* the corridor file: <<>> absent, <<content>> present
  \* resampleLineWithProgress applied to one line
  rsCoords, rsStep, rsOut, rspc,
  rsLoop,      \* the locals i, dist, cumDist, carry while the call is followed
               \* statement by statement, <<>> otherwise
  \* the keyed fold applied to crossings between given cells
  crossed,
  \* build_travel_times_from_routes.js main(), for one home
  resortName,  \* per resort: r.name of resorts.json
  route,       \* per resort: duration (s) and distance (m) of the engine's route
  ttFile,      \* the travel-time file: <<>> absent, <<ttMap>> present
  ttpc,        \* "idle"; "ready" until the extractor has run once, then "ran"
  ttRuns,      \* how many times the extractor has been run
  ttLast,      \* its last run: <<>> none, <<[force, store]>> flag and route file read
  \* precompute_routes.js main() before the pool starts
  listHomes,   \* args.listHomes
  originArg,   \* args.origin: <<>> absent, <<parts>> the parts of its split(",")
  homesFile,   \* <<>> when homesPath is null, else <<the file at homesPath>>
  homeId,      \* args.homeId
  resortsReadable,  \* readJson(resortsPath) returns
  resortPos,   \* per resort: r.lat, r.lon of resorts.json
  origin,      \* <<>> until determined, then <<[lat, lon]>>
  printed,     \* what console.log has written: the lines of the homes list
  \* the routing engine
  stuck,       \* the resort whose request never completes, 0 for none
  \* js/homeTravelTimes.js, homes being 1..MaxHomes and the map of home h
  \* being written h
  cache,       \* the homes that have an entry in cache
  pendingHomeId,  \* 0 for null
  resortsReady,   \* window.__resortsReady
  applied,     \* the map last passed to applyTravelTimesFromMap, 0 for none
  fetching,    \* per home: the fetches of its file that have not completed
  requested,   \* the home of the latest call of load, 0 for none
  loads        \* the calls of load so far

acqVars == <<nResorts, limit, nextItem, executing, item, feats, ok, fail,
             mainpc, outFile, exitCode, prevFile>>
corrVars == <<stepM, gridM, minCount, folded, segments, corrpc, corrOut>>
rsVars == <<rsCoords, rsStep, rsOut, rspc, rsLoop>>
keyVars == <<crossed>>
ttVars == <<resortName, route, ttFile, ttpc, ttRuns, ttLast>>

preVars == <<listHomes, originArg, homesFile, homeId, resortsReadable, resortPos,
             origin, printed>>
netVars == <<stuck>>
ldVars == <<cache, pendingHomeId, resortsReady, applied, fetching, requested, loads>>

vars == <<acqVars, corrVars, rsVars, keyVars, ttVars, preVars, netVars, ldVars>>

\* main() is run without the pre-flight being looked at: the default origin,
\* a readable resort list
PreIdle ==
  /\ listHomes = FALSE /\ originArg = <<>> /\ homesFile = <<>> /\ homeId = <<>>
  /\ resortsReadable = TRUE /\ resortPos = <<>> /\ origin = <<>> /\ printed = <<>>
\* every request completes
NetIdle == stuck = 0
\* the page is not open
LdIdle ==
  /\ cache = {} /\ pendingHomeId = 0 /\ resortsReady = FALSE /\ applied = 0
  /\ fetching = <<>> /\ requested = 0 /\ loads = 0

\* ------------------------------------------------------------ small helpers
Range(s) == {s[k] : k \in 1..Len(s)}

Resorts == 1..nResorts

\* What one request can come back with.  "http": resp.ok is false;
\* "parse": resp.json() rejects; the others are parseable bodies.
ErrorKinds == {"http", "parse"}
BodyKinds == {"route", "noRoutes", "noGeometry"}

IdleItem == [phase |-> "idle", attempt |-> 0, last |-> "none"]

\* ------------------------------------------------------------- asyncPool
\* if (executing.length >= limit) await Promise.race(executing);
MustAwaitOffByOne(len, lim) == len > lim
MustAwait(len, lim) == len >= lim

\* executing.splice(executing.indexOf(e), 1)
Splice(exec, i) == SelectSeq(exec, LAMBDA x : x # i)

\* await Promise.race(executing) resumes when any promise of executing
\* settles, here that of item i
RaceAwaitsOldest(exec, i) == exec[1] = i
RaceResolves(exec, i) == \E k \in 1..Len(exec) : exec[k] = i

\* fetchRoute's first statement reached: attempt = 1, request issued.
StartWorker(its, i) == [its EXCEPT ![i] = [phase |-> "fetch", attempt |-> 1, last |-> "none"]]

\* The synchronous run of the for-of loop from position nxt until it awaits
\* a race or runs out of items (and returns Promise.all(ret)).  The worker of
\* a pushed item starts in the microtasks that follow, before any I/O event.
RECURSIVE PoolLoop(_, _, _)
PoolLoop(nxt, exec, its) ==
  IF nxt > nResorts
    THEN [next |-> nxt, exec |-> exec, items |-> its, pc |-> "awaitAll"]
    ELSE LET exec2 == Append(exec, nxt)
             its2 == StartWorker(its, nxt)
         IN  IF MustAwait(Len(exec2), limit)
               THEN [next |-> nxt + 1, exec |-> exec2, items |-> its2, pc |-> "awaitRace"]
               ELSE PoolLoop(nxt + 1, exec2, its2)

Settled(it) == it.phase \in {"stored", "skipped"}

\* Promise.all(ret) is fulfilled: every p has resolved.
AllResolvedEarly(its) == TRUE
AllResolved(its) == \A j \in DOMAIN its : Settled(its[j])

\* --------------------------------------------------------------- the worker
\* The try/catch of the iterator: what becomes of an error thrown inside it.
WorkerCatchRethrows(kind) == "rejected"
WorkerCatch(kind) == "skipped"

\* feats.push({...})
FeatsPushFront(f, i) == <<i>> \o f
FeatsPush(f, i) == Append(f, i)

\* const route = data.routes && data.routes[0];
\* if (!route || !route.geometry) throw new Error("No route geometry");
HasGeometry(kind) == kind = "route"

\* main() after asyncPool resolved: writeFileSync, then the process ends.
\* A rejected worker rejects the race / Promise.all, asyncPool throws,
\* main().catch exits with 1 and nothing is written.
Finish(its2, feats2, ok2, fail2, exec2, nxt2, pc2, rejected) ==
  /\ item' = its2
  /\ feats' = feats2
  /\ ok' = ok2
  /\ fail' = fail2
  /\ executing' = exec2
  /\ nextItem' = nxt2
  /\ IF rejected
       THEN /\ mainpc' = "exited"
            /\ exitCode' = 1
            /\ outFile' = outFile
       ELSE IF pc2 = "awaitAll" /\ AllResolved(its2)
         THEN /\ mainpc' = "exited"
              /\ exitCode' = 0
              /\ outFile' = <<feats2>>
         ELSE /\ mainpc' = pc2
              /\ exitCode' = exitCode
              /\ outFile' = outFile
  /\ UNCHANGED <<nResorts, limit, prevFile>>
  /\ UNCHANGED <<corrVars, rsVars, keyVars, ttVars, preVars, netVars, ldVars>>

\* Worker i has settled with items its2: p resolves, the e callback splices
\* it out of executing, the race (if main awaits one) resolves and the
\* for-loop goes on; Promise.all resolves once every p has.
AfterSettle(i, its2, feats2, ok2, fail2) ==
  IF its2[i].phase = "rejected"
    THEN Finish(its2, feats2, ok2, fail2, executing, nextItem, mainpc, TRUE)
    ELSE LET exec2 == Splice(executing, i)
             run == IF mainpc = "awaitRace" /\ RaceResolves(executing, i)
                      THEN PoolLoop(nextItem, exec2, its2)
                      ELSE [next |-> nextItem, exec |-> exec2, items |-> its2, pc |-> mainpc]
         IN  Finish(run.items, feats2, ok2, fail2, run.exec, run.next, run.pc, FALSE)

\* catch (e) { fail++; console.warn(...) }
WorkerFails(i, kind) ==
  AfterSettle(i, [item EXCEPT ![i].phase = WorkerCatch(kind), ![i].last = kind],
              feats, ok, fail + 1)

\* ------------------------------------------------------------------ actions
\* await asyncPool(concurrency, resorts, ...): the first synchronous run.
StartPool ==
  /\ mainpc = "start"
  /\ LET run == PoolLoop(1, <<>>, item)
     IN  Finish(run.items, feats, ok, fail, run.exec, run.next, run.pc, FALSE)

\* The request of resort i fails: fetchFn rejects / !resp.ok / resp.json()
\* rejects.  catch (e) { last = e; await sleep(350 * attempt); }
ResponseError(i, kind) ==
  /\ mainpc \in {"awaitRace", "awaitAll"}
  /\ item[i].phase = "fetch"
  /\ i # stuck
  /\ item' = [item EXCEPT ![i].phase = "sleep", ![i].last = kind]
  /\ UNCHANGED <<nResorts, limit, nextItem, executing, feats, ok, fail,
                 mainpc, outFile, exitCode, prevFile>>
  /\ UNCHANGED <<corrVars, rsVars, keyVars, ttVars, preVars, netVars, ldVars>>

\* The request of resort i returns a parseable body: fetchRoute returns it
\* and the worker stores the feature or throws "No route geometry".
ResponseBody(i, kind) ==
  /\ mainpc \in {"awaitRace", "awaitAll"}
  /\ item[i].phase = "fetch"
  /\ i # stuck
  /\ IF HasGeometry(kind)
       THEN AfterSettle(i, [item EXCEPT ![i].phase = "stored", ![i].last = kind],
                        FeatsPush(feats, i), ok + 1, fail)
       ELSE WorkerFails(i, kind)

\* The backoff timer of resort i fires: next attempt, or after the last
\* attempt the for loop ends and fetchRoute throws last.
SleepDone(i) ==
  /\ mainpc \in {"awaitRace", "awaitAll"}
  /\ item[i].phase = "sleep"
  /\ IF item[i].attempt < MaxAttempts
       THEN /\ item' = [item EXCEPT ![i].phase = "fetch", ![i].attempt = @ + 1]
            /\ UNCHANGED <<nResorts, limit, nextItem, executing, feats, ok, fail,
                           mainpc, outFile, exitCode, prevFile>>
            /\ UNCHANGED <<corrVars, rsVars, keyVars, ttVars, preVars, netVars, ldVars>>
       ELSE WorkerFails(i, item[i].last)

\* The script is run again over the same resort list and output path.
Rerun ==
  /\ mainpc = "exited"
  /\ exitCode = 0
  /\ prevFile = <<>>
  /\ nResorts > 0
  /\ prevFile' = outFile
  /\ item' = [i \in Resorts |-> IdleItem]
  /\ feats' = <<>>
  /\ ok' = 0
  /\ fail' = 0
  /\ nextItem' = 1
  /\ executing' = <<>>
  /\ mainpc' = "start"
  /\ exitCode' = -1
  /\ UNCHANGED <<nResorts, limit, outFile>>
  /\ UNCHANGED <<corrVars, rsVars, keyVars, ttVars, preVars, netVars, ldVars>>

AcqInit ==
  /\ nResorts \in 0..MaxResorts
  /\ limit \in 1..MaxLimit
  /\ nextItem = 1
  /\ executing = <<>>
  /\ item = [i \in Resorts |-> IdleItem]
  /\ feats = <<>>
  /\ ok = 0
  /\ fail = 0
  /\ mainpc = "start"
  /\ outFile = <<>>
  /\ exitCode = -1
  /\ prevFile = <<>>

\* The acquisition script is not running.
AcqIdle ==
  /\ nResorts = 0
  /\ limit = 1
  /\ nextItem = 1
  /\ executing = <<>>
  /\ item = <<>>
  /\ feats = <<>>
  /\ ok = 0
  /\ fail = 0
  /\ mainpc = "idle"
  /\ outFile = <<>>
  /\ exitCode = -1
  /\ prevFile = <<>>

AcqNext ==
  \/ StartPool
  \/ \E i \in Resorts : \E kind \in ErrorKinds : ResponseError(i, kind)
  \/ \E i \in Resorts : \E kind \in BodyKinds : ResponseBody(i, kind)
  \/ \E i \in Resorts : SleepDone(i)

\* =========================================================================
\* build_corridors.js
\* =========================================================================
\* Numbers.  A JavaScript number of the corridor build is a pair <<n, d>>:
\* the rational n/d in lowest terms with d > 0, Infinity as <<1, 0>>, and
\* null / undefined / "not a number" as <<0, 0>>.  Lengths, counts, cell
\* indices and coordinates are integers.
Abs(n) == IF n < 0 THEN -n ELSE n

RECURSIVE Gcd(_, _)
Gcd(a, b) == IF b = 0 THEN a ELSE Gcd(b, a % b)

Rat(n, d) ==
  LET g == Gcd(Abs(n), Abs(d))
      sgn == IF d < 0 THEN -1 ELSE 1
  IN  <<(sgn * n) \div g, (sgn * d) \div g>>
Num(n) == <<n, 1>>
Null == <<0, 0>>
Infinity == <<1, 0>>
IsFinite(v) == v[2] > 0
RatAdd(p, q) == Rat(p[1] * q[2] + q[1] * p[2], p[2] * q[2])
RatMul(p, q) == Rat(p[1] * q[1], p[2] * q[2])
RatDiv(p, k) == Rat(p[1], p[2] * k)
RatLess(p, q) == p[1] * q[2] < q[1] * p[2]
\* Math.min(a, b), a possibly Infinity, b finite
MathMin(p, q) == IF p = Infinity THEN q ELSE IF RatLess(q, p) THEN q ELSE p
\* Math.max(a, b) of finite numbers
MathMax(p, q) == IF RatLess(p, q) THEN q ELSE p
\* Math.round: to the nearest integer, halves up
MathRound(p) == (2 * p[1] + p[2]) \div (2 * p[2])
\* a JavaScript condition on a number or null: 0, NaN and null are falsy
Truthy(v) == IsFinite(v) /\ v[1] # 0

\* Coordinates are [lon, lat] pairs, <<x, y>> here, in a unit in which one
\* unit of longitude or latitude is one metre of arc, and every segment of a
\* line runs along a parallel or a meridian of the model plane: there the
\* great-circle distance is the coordinate difference and the linear
\* interpolation of lerpCoord stays on integer coordinates.
haversineMeters(lat1, lon1, lat2, lon2) == Abs(lat2 - lat1) + Abs(lon2 - lon1)

\* lerpCoord(a, b, t) with t = dist / segLen
lerpCoord(a, b, dist, segLen) ==
  <<a[1] + ((b[1] - a[1]) * dist) \div segLen, a[2] + ((b[2] - a[2]) * dist) \div segLen>>

SegLen(coords, i) ==
  haversineMeters(coords[i][2], coords[i][1], coords[i + 1][2], coords[i + 1][1])

\* the first loop: totalLen
RECURSIVE TotalLen(_, _)
TotalLen(coords, i) ==
  IF i > Len(coords) - 1 THEN 0 ELSE SegLen(coords, i) + TotalLen(coords, i + 1)

\* while (dist + stepM <= segLen) { dist += stepM; cumDist += stepM; out.push }
RECURSIVE StepAlong(_, _, _, _, _, _)
StepAlong(a, b, segLen, step, totalLen, w) ==
  IF w.dist + step <= segLen
    THEN LET dist == w.dist + step
             cumDist == w.cumDist + step
         IN  StepAlong(a, b, segLen, step, totalLen,
                       [dist |-> dist, cumDist |-> cumDist,
                        out |-> Append(w.out, [coord |-> lerpCoord(a, b, dist, segLen),
                                               progress |-> Rat(cumDist, totalLen)])])
    ELSE w

\* the second loop, over the segments, from segment i on
RECURSIVE WalkSegments(_, _, _, _, _)
WalkSegments(coords, step, totalLen, i, st) ==
  IF i > Len(coords) - 1
    THEN st
    ELSE LET segLen == SegLen(coords, i)
         IN  IF segLen = 0
               THEN WalkSegments(coords, step, totalLen, i + 1, st)
               ELSE LET w == StepAlong(coords[i], coords[i + 1], segLen, step, totalLen,
                                       [dist |-> st.carry, cumDist |-> st.cumDist, out |-> st.out])
                    IN  WalkSegments(coords, step, totalLen, i + 1,
                                     [out |-> w.out,
                                      cumDist |-> w.cumDist + (segLen - w.dist),
                                      carry |-> segLen - w.dist])

\* if (!lastOut || lastOut.coord[0] !== last[0] || lastOut.coord[1] !== last[1])
FinalVertexAlways(lastOut, last) == TRUE
FinalVertexMissing(lastOut, last) ==
  lastOut.coord[1] # last[1] \/ lastOut.coord[2] # last[2]

resampleLineWithProgress(coords, step) ==
  IF Len(coords) < 2
    THEN <<>>
    ELSE LET totalLen == TotalLen(coords, 1)
         IN  IF totalLen = 0
               THEN <<>>
               ELSE LET st == WalkSegments(coords, step, totalLen, 1,
                                           [out |-> <<[coord |-> coords[1], progress |-> Num(0)]>>,
                                            cumDist |-> 0, carry |-> 0])
                        last == coords[Len(coords)]
                        lastOut == st.out[Len(st.out)]
                    IN  IF FinalVertexMissing(lastOut, last)
                          THEN Append(st.out, [coord |-> last, progress |-> Num(1)])
                          ELSE st.out

\* ------------------------------------------------ the lines tried
\* Lines of at most MaxVerts vertices on the points (0..MaxCoord) x {0, 1},
\* consecutive vertices on one parallel or one meridian (or equal).
Points == {<<x, y>> : x \in 0..MaxCoord, y \in {0, 1}}
Aligned(p, q) == p[1] = q[1] \/ p[2] = q[2]
RECURSIVE LinesOfLen(_)
LinesOfLen(n) ==
  IF n = 0 THEN {<<>>}
  ELSE IF n = 1 THEN {<<p>> : p \in Points}
  ELSE {ll \in {Append(l, p) : l \in LinesOfLen(n - 1), p \in Points} :
          Aligned(ll[n - 1], ll[n])}
Lines == UNION {LinesOfLen(n) : n \in 0..MaxVerts}

RsIdle ==
  /\ rsCoords = <<>> /\ rsStep = 1 /\ rsOut = <<>> /\ rspc = "idle" /\ rsLoop = <<>>

RsInit ==
  /\ rsCoords \in Lines
  /\ rsStep \in 1..MaxStep
  /\ rsOut = <<>>
  /\ rspc = "call"
  /\ rsLoop = <<>>

\* resampleLineWithProgress(f.geometry.coordinates, stepM)
Resample ==
  /\ rspc = "call"
  /\ rsOut' = resampleLineWithProgress(rsCoords, rsStep)
  /\ rspc' = "returned"
  /\ UNCHANGED <<rsCoords, rsStep, rsLoop, acqVars, corrVars, keyVars, ttVars, preVars, netVars, ldVars>>

\* --------------------------------------------------------- cells and keys
\* WebMercator, in the model plane's unit: metres east and north
mercX(lon) == lon
mercY(lat) == lat

\* Math.floor(x / gridM)
cellId(lon, lat, g) == [cx |-> mercX(lon) \div g, cy |-> mercY(lat) \div g]

\* cellCenter: (cx + 0.5) * gridM, (cy + 0.5) * gridM, kept in half metres
cellCenter(cx, cy, g) == <<(2 * cx + 1) * g, (2 * cy + 1) * g>>

\* Strings are sequences of UTF-16 code units.
Minus == 45
Comma == 44
Bar == 124
Zero == 48

\* `${n}` of an integer
RECURSIVE Digits(_)
Digits(n) == IF n < 10 THEN <<Zero + n>> ELSE Append(Digits(n \div 10), Zero + (n % 10))
NumberToString(n) == IF n < 0 THEN <<Minus>> \o Digits(-n) ELSE Digits(n)

\* Number(s) of a string written by NumberToString
RECURSIVE DigitsValue(_)
DigitsValue(s) ==
  IF Len(s) = 0 THEN 0 ELSE 10 * DigitsValue(SubSeq(s, 1, Len(s) - 1)) + (s[Len(s)] - Zero)
StringToNumber(s) ==
  IF Len(s) > 0 /\ s[1] = Minus THEN -DigitsValue(SubSeq(s, 2, Len(s))) ELSE DigitsValue(s)

\* s < t on strings: by code units, a proper prefix first
RECURSIVE StringLess(_, _)
StringLess(s, t) ==
  IF Len(t) = 0 THEN FALSE
  ELSE IF Len(s) = 0 THEN TRUE
  ELSE IF s[1] # t[1] THEN s[1] < t[1]
  ELSE StringLess(Tail(s), Tail(t))

\* s.split(sep) for a one-unit separator
RECURSIVE Split(_, _)
Split(s, sep) ==
  IF \A k \in 1..Len(s) : s[k] # sep
    THEN <<s>>
    ELSE LET k == CHOOSE j \in 1..Len(s) : s[j] = sep /\ \A m \in 1..(j - 1) : s[m] # sep
         IN  <<SubSeq(s, 1, k - 1)>> \o Split(SubSeq(s, k + 1, Len(s)), sep)

CellString(c) == NumberToString(c.cx) \o <<Comma>> \o NumberToString(c.cy)

undirectedKeyDirected(a, b) == CellString(a) \o <<Bar>> \o CellString(b)
undirectedKey(a, b) ==
  LET k1 == CellString(a)
      k2 == CellString(b)
  IN  IF StringLess(k1, k2) THEN k1 \o <<Bar>> \o k2 ELSE k2 \o <<Bar>> \o k1

\* const [aStr, bStr] = key.split("|"); aStr.split(",").map(Number) ...
KeyCells(key) ==
  LET ab == Split(key, Bar)
      a == Split(ab[1], Comma)
      b == Split(ab[2], Comma)
  IN  <<[cx |-> StringToNumber(a[1]), cy |-> StringToNumber(a[2])],
        [cx |-> StringToNumber(b[1]), cy |-> StringToNumber(b[2])]>>

\* ------------------------------------------------------------- the fold
\* getDurationMin(props); a property that is no number is Null
getDurationMin(props) ==
  IF ~props.present THEN Null
  ELSE IF IsFinite(props.duration_min) THEN props.duration_min
  ELSE IF IsFinite(props.duration_sec) THEN RatDiv(props.duration_sec, 60)
  ELSE IF IsFinite(props.duration) THEN RatDiv(props.duration, 60)
  ELSE Null

KeyIndex(segs, key) ==
  IF \E k \in 1..Len(segs) : segs[k].key = key
    THEN CHOOSE k \in 1..Len(segs) : segs[k].key = key
    ELSE 0

\* seg.count++
CountUp(n) == n + 1

\* segments.get(key), creation when absent, count++, the duration sample
FoldCrossing(segs, ca, cb, durationAtPoint) ==
  LET key == undirectedKey(ca, cb)
      segs2 == IF KeyIndex(segs, key) = 0
                 THEN Append(segs, [key |-> key, count |-> 0,
                                    minDurationMin |-> Infinity, durations |-> <<>>])
                 ELSE segs
      k == KeyIndex(segs2, key)
      seg == segs2[k]
  IN  [segs2 EXCEPT ![k] =
         IF durationAtPoint # Null /\ IsFinite(durationAtPoint)
           THEN [key |-> key, count |-> CountUp(seg.count),
                 minDurationMin |-> MathMin(seg.minDurationMin, durationAtPoint),
                 durations |-> Append(seg.durations, durationAtPoint)]
           ELSE [seg EXCEPT !.count = CountUp(seg.count)]]

\* for (let i = 0; i < sampled.length - 1; i++) { ... }
RECURSIVE FoldSampled(_, _, _, _, _)
FoldSampled(segs, sampled, i, totalDurationMin, g) ==
  IF i > Len(sampled) - 1
    THEN segs
    ELSE LET a == sampled[i]
             b == sampled[i + 1]
             ca == cellId(a.coord[1], a.coord[2], g)
             cb == cellId(b.coord[1], b.coord[2], g)
             avgProgress == RatDiv(RatAdd(a.progress, b.progress), 2)
             durationAtPoint == IF Truthy(totalDurationMin)
                                  THEN RatMul(totalDurationMin, avgProgress)
                                  ELSE Null
         IN  IF ca.cx = cb.cx /\ ca.cy = cb.cy
               THEN FoldSampled(segs, sampled, i + 1, totalDurationMin, g)
               ELSE FoldSampled(FoldCrossing(segs, ca, cb, durationAtPoint),
                                sampled, i + 1, totalDurationMin, g)

\* one iteration of for (const f of (fc.features || []))
FoldOne(segs, f, step, g) ==
  IF f.geometryType # "LineString"
    THEN segs
    ELSE FoldSampled(segs, resampleLineWithProgress(f.coordinates, step), 1,
                     getDurationMin(f.properties), g)

\* ------------------------------------------------------------ the output
\* if (seg.count < minCount) continue;
KeepsAbove(count, k) == ~(count <= k)
Keeps(count, k) == ~(count < k)

RECURSIVE Sum(_)
Sum(ds) == IF Len(ds) = 0 THEN Num(0) ELSE RatAdd(ds[1], Sum(Tail(ds)))

\* the feature pushed for one surviving segment
SegmentFeature(seg, g) ==
  LET cells == KeyCells(seg.key)
      avgDuration == IF Len(seg.durations) > 0
                       THEN RatDiv(Sum(seg.durations), Len(seg.durations))
                       ELSE Null
      minDuration == IF seg.minDurationMin # Infinity THEN seg.minDurationMin ELSE Null
  IN  [coordinates |-> <<cellCenter(cells[1].cx, cells[1].cy, g),
                         cellCenter(cells[2].cx, cells[2].cy, g)>>,
       count |-> seg.count,
       grid_m |-> g,
       duration_min |-> IF minDuration # Null THEN Num(MathRound(minDuration)) ELSE Null,
       duration_avg_min |-> IF avgDuration # Null THEN Num(MathRound(avgDuration)) ELSE Null]

\* for (const [key, seg] of segments.entries()) { ... feats.push }
RECURSIVE Survivors(_, _, _, _, _)
Survivors(segs, i, k, g, acc) ==
  IF i > Len(segs)
    THEN acc
    ELSE IF ~Keeps(segs[i].count, k)
      THEN Survivors(segs, i + 1, k, g, acc)
      ELSE LET minDuration == IF segs[i].minDurationMin # Infinity
                                THEN segs[i].minDurationMin ELSE Null
           IN  Survivors(segs, i + 1, k, g,
                 [feats |-> Append(acc.feats, SegmentFeature(segs[i], g)),
                  maxCount |-> IF segs[i].count > acc.maxCount THEN segs[i].count ELSE acc.maxCount,
                  maxDuration |-> IF minDuration # Null
                                    THEN MathMax(acc.maxDuration, minDuration)
                                    ELSE acc.maxDuration])

\* (a, b) => db - da, with duration_min ?? Infinity; NaN compares as 0
CompareClosestFirst(a, b) ==
  LET da == IF a.duration_min = Null THEN Infinity ELSE a.duration_min
      db == IF b.duration_min = Null THEN Infinity ELSE b.duration_min
  IN  IF da = Infinity /\ db = Infinity THEN 0
      ELSE IF db = Infinity THEN -1
      ELSE IF da = Infinity THEN 1
      ELSE IF RatLess(da, db) THEN -1
      ELSE IF RatLess(db, da) THEN 1
      ELSE 0
Compare(a, b) ==
  LET da == IF a.duration_min = Null THEN Infinity ELSE a.duration_min
      db == IF b.duration_min = Null THEN Infinity ELSE b.duration_min
  IN  IF da = Infinity /\ db = Infinity THEN 0
      ELSE IF db = Infinity THEN 1
      ELSE IF da = Infinity THEN -1
      ELSE IF RatLess(da, db) THEN 1
      ELSE IF RatLess(db, da) THEN -1
      ELSE 0

\* Array.prototype.sort: stable
RECURSIVE InsertSorted(_, _)
InsertSorted(sorted, f) ==
  IF Len(sorted) = 0 THEN <<f>>
  ELSE IF Compare(sorted[Len(sorted)], f) <= 0 THEN Append(sorted, f)
  ELSE Append(InsertSorted(SubSeq(sorted, 1, Len(sorted) - 1), f), sorted[Len(sorted)])
RECURSIVE SortFeats(_, _)
SortFeats(fs, i) ==
  IF i = 0 THEN <<>> ELSE InsertSorted(SortFeats(fs, i - 1), fs[i])

\* ------------------------------------------------ the route stores tried
Home == <<0, 0>>
NoProperties ==
  [present |-> TRUE, duration_min |-> Null, duration_sec |-> Null, duration |-> Null]
TimedProperties ==
  [present |-> TRUE, duration_min |-> Num(6), duration_sec |-> Num(360), duration |-> Null]
\* a route the engine timed at less than 3 seconds: duration_min is 0.0
ZeroProperties ==
  [present |-> TRUE, duration_min |-> Num(0), duration_sec |-> Num(2), duration |-> Null]
CorridorLines ==
  { <<Home, <<3, 0>>>>,
    <<Home, <<-3, 0>>>>,
    <<Home, <<3, 0>>, <<-3, 0>>>>,
    <<Home, <<2, 0>>, <<2, 2>>>>,
    <<Home, <<-1, 0>>, <<-4, 0>>>>,
    <<Home>> }
CorridorFeatures ==
  {[geometryType |-> "LineString", coordinates |-> l, properties |-> p] :
      l \in CorridorLines, p \in {NoProperties, TimedProperties, ZeroProperties}}
  \cup {[geometryType |-> "Point", coordinates |-> Home, properties |-> NoProperties]}
CorridorSteps == {1, 2}
CorridorGrids == {2, 3}

KeyIdle == crossed = <<>>
\* The travel-time extractor is not run.
TtIdle ==
  /\ resortName = <<>> /\ route = <<>> /\ ttFile = <<>> /\ ttpc = "idle"
  /\ ttRuns = 0 /\ ttLast = <<>>

CorrIdle ==
  /\ stepM = 1 /\ gridM = 1 /\ minCount = 1
  /\ folded = <<>> /\ segments = <<>> /\ corrpc = "idle" /\ corrOut = <<>>

CorrInit ==
  /\ stepM \in CorridorSteps
  /\ gridM \in CorridorGrids
  /\ minCount \in 1..MaxMinCount
  /\ folded = <<>>
  /\ segments = <<>>
  /\ corrpc = "fold"
  /\ corrOut = <<>>

\* The fold loop takes the next feature f of the Route Store.
FoldFeature(f) ==
  /\ corrpc = "fold"
  /\ Len(folded) < MaxRoutes
  /\ folded' = Append(folded, f)
  /\ segments' = FoldOne(segments, f, stepM, gridM)
  /\ UNCHANGED <<stepM, gridM, minCount, corrpc, corrOut, acqVars, rsVars, keyVars, ttVars, preVars, netVars, ldVars>>

\* The Route Store has no further feature: filter, sort, write.
WriteCorridors ==
  /\ corrpc = "fold"
  /\ LET s == Survivors(segments, 1, minCount, gridM,
                        [feats |-> <<>>, maxCount |-> 0, maxDuration |-> Num(0)])
     IN  corrOut' = <<[properties |-> [step_m |-> stepM, grid_m |-> gridM,
                                       min_count |-> minCount, max_count |-> s.maxCount,
                                       max_duration_min |-> MathRound(s.maxDuration)],
                       features |-> SortFeats(s.feats, Len(s.feats))]>>
  /\ corrpc' = "done"
  /\ UNCHANGED <<stepM, gridM, minCount, folded, segments, acqVars, rsVars, keyVars, ttVars, preVars, netVars, ldVars>>

CorrNext == (\E f \in CorridorFeatures : FoldFeature(f)) \/ WriteCorridors
InitCorridor == AcqIdle /\ CorrInit /\ RsIdle /\ KeyIdle /\ TtIdle /\ PreIdle /\ NetIdle /\ LdIdle
SpecCorridor == InitCorridor /\ [][CorrNext]_vars

\* ------------------------------------------ the keyed fold on given cells
SampleCells ==
  {[cx |-> -1, cy |-> 0], [cx |-> 0, cy |-> -1], [cx |-> 9, cy |-> 0], [cx |-> 10, cy |-> 0]}

\* A consecutive pair of resampled points lies in cells ca and cb.
Crossing(ca, cb) ==
  /\ corrpc = "fold"
  /\ Len(crossed) < MaxCrossings
  /\ ca # cb
  /\ crossed' = Append(crossed, <<ca, cb>>)
  /\ segments' = FoldCrossing(segments, ca, cb, Null)
  /\ UNCHANGED <<stepM, gridM, minCount, folded, corrpc, corrOut, acqVars, rsVars, ttVars, preVars, netVars, ldVars>>

KeyNext == \E ca \in SampleCells : \E cb \in SampleCells : Crossing(ca, cb)
InitKey == InitCorridor /\ stepM = 1 /\ gridM = 2 /\ minCount = 1
SpecKey == InitKey /\ [][KeyNext]_vars

InitResample == AcqIdle /\ CorrIdle /\ RsInit /\ KeyIdle /\ TtIdle /\ PreIdle /\ NetIdle /\ LdIdle
SpecResample == InitResample /\ [][Resample]_vars

\* ------------------------------- the resampler, statement by statement
\* const stepM = Number(args.step || 500): "--step 0" and "--step -1" give
\* the strings "0" and "-1", which are truthy, so stepM is 0 or -1
StepArgs == -1..MaxStep

\* out.push inside the while loop succeeds while the array can grow: the
\* memory of the process is exhausted MaxExtra points beyond those a line
\* of this length holds at a step of one metre
CanPush == Len(rsOut) < TotalLen(rsCoords, 1) + 2 + MaxExtra

\* from the call to the first test of the for loop
RsEnter ==
  /\ rspc = "call"
  /\ IF Len(rsCoords) < 2 \/ TotalLen(rsCoords, 1) = 0
       THEN /\ rsOut' = <<>>
            /\ rspc' = "returned"
            /\ rsLoop' = rsLoop
       ELSE /\ rsOut' = <<[coord |-> rsCoords[1], progress |-> Num(0)]>>
            /\ rspc' = "for"
            /\ rsLoop' = <<[i |-> 1, dist |-> 0, cumDist |-> 0, carry |-> 0]>>
  /\ UNCHANGED <<rsCoords, rsStep, acqVars, corrVars, keyVars, ttVars, preVars, netVars, ldVars>>

\* the test of the for loop: the next segment (let dist = carry), or the
\* final vertex and the return
RsSegment ==
  /\ rspc = "for"
  /\ LET l == rsLoop[1]
         last == rsCoords[Len(rsCoords)]
     IN  IF l.i > Len(rsCoords) - 1
           THEN /\ rsOut' = IF FinalVertexMissing(rsOut[Len(rsOut)], last)
                               THEN Append(rsOut, [coord |-> last, progress |-> Num(1)])
                               ELSE rsOut
                /\ rspc' = "returned"
                /\ rsLoop' = rsLoop
           ELSE IF SegLen(rsCoords, l.i) = 0
             THEN /\ rsLoop' = <<[l EXCEPT !.i = @ + 1]>>
                  /\ UNCHANGED <<rsOut, rspc>>
             ELSE /\ rsLoop' = <<[l EXCEPT !.dist = l.carry]>>
                  /\ rspc' = "while"
                  /\ rsOut' = rsOut
  /\ UNCHANGED <<rsCoords, rsStep, acqVars, corrVars, keyVars, ttVars, preVars, netVars, ldVars>>

\* the test of the while loop: one more point (or the process dying for
\* want of memory), or the end of the segment
RsStep ==
  /\ rspc = "while"
  /\ LET l == rsLoop[1]
         segLen == SegLen(rsCoords, l.i)
     IN  IF l.dist + rsStep <= segLen
           THEN IF CanPush
                  THEN /\ rsLoop' = <<[l EXCEPT !.dist = @ + rsStep, !.cumDist = @ + rsStep]>>
                       /\ rsOut' = Append(rsOut,
                            [coord |-> lerpCoord(rsCoords[l.i], rsCoords[l.i + 1],
                                                 l.dist + rsStep, segLen),
                             progress |-> Rat(l.cumDist + rsStep, TotalLen(rsCoords, 1))])
                       /\ rspc' = rspc
                  ELSE /\ rspc' = "exhausted"
                       /\ UNCHANGED <<rsLoop, rsOut>>
           ELSE /\ rsLoop' = <<[l EXCEPT !.cumDist = @ + (segLen - l.dist),
                                         !.carry = segLen - l.dist,
                                         !.i = @ + 1]>>
                /\ rspc' = "for"
                /\ rsOut' = rsOut
  /\ UNCHANGED <<rsCoords, rsStep, acqVars, corrVars, keyVars, ttVars, preVars, netVars, ldVars>>

RsInitLoop ==
  /\ rsCoords \in Lines
  /\ rsStep \in StepArgs
  /\ rsOut = <<>>
  /\ rspc = "call"
  /\ rsLoop = <<>>
InitResampleLoop ==
  AcqIdle /\ CorrIdle /\ RsInitLoop /\ KeyIdle /\ TtIdle /\ PreIdle /\ NetIdle /\ LdIdle
NextResampleLoop == RsEnter \/ RsSegment \/ RsStep
SpecResampleLoop ==
  InitResampleLoop /\ [][NextResampleLoop]_vars /\ WF_vars(NextResampleLoop)

Init == AcqInit /\ CorrIdle /\ RsIdle /\ KeyIdle /\ TtIdle /\ PreIdle /\ NetIdle /\ LdIdle
Next == AcqNext
Spec == Init /\ [][Next]_vars

\* Two runs of the script, one after the other, over the same resort list.
InitTwoRuns == Init /\ nResorts <= MaxResortsTwoRuns
NextTwoRuns == AcqNext \/ Rerun
SpecTwoRuns == InitTwoRuns /\ [][NextTwoRuns]_vars

\* =========================================================================
\* build_travel_times_from_routes.js
\* =========================================================================
\* Numbers.  The extractor's arithmetic is JavaScript's IEEE-754 binary64,
\* round to nearest, ties to even.  A positive double is
\* [mant |-> 53 bits, most significant first, exp |-> e], the value
\* mant * 2^e; zero is [mant |-> <<>>, exp |-> 0].
F64Precision == 53
F64Zero == [mant |-> <<>>, exp |-> 0]
\* a property that is absent, or null after JSON: typeof is not "number"
NotANumber == [mant |-> <<>>, exp |-> 1]
IsNumber(v) == v # NotANumber

\* the w bits of an integer v < 2^w
FixedBits(v, w) == [k \in 1..w |-> (v \div (2 ^ (w - k))) % 2]

\* b without its leading zeros
StripZeros(b) ==
  IF \A k \in 1..Len(b) : b[k] = 0
    THEN <<>>
    ELSE SubSeq(b, CHOOSE k \in 1..Len(b) : b[k] = 1 /\ \A j \in 1..(k - 1) : b[j] = 0,
                Len(b))

\* the bits of an integer 0 <= n < 2^31
IntBits == 31
BitsOf(n) == StripZeros(FixedBits(n, IntBits))

\* the integer of the bits b[from..to], at most 31 of them
RECURSIVE BitsValue(_, _, _)
BitsValue(b, from, to) ==
  IF to < from THEN 0
  ELSE IF to - from >= 3
    THEN 16 * BitsValue(b, from, to - 4)
           + 8 * b[to - 3] + 4 * b[to - 2] + 2 * b[to - 1] + b[to]
    ELSE 2 * BitsValue(b, from, to - 1) + b[to]

\* b + 1
BitsInc(b) ==
  IF \A k \in 1..Len(b) : b[k] = 1
    THEN <<1>> \o [k \in 1..Len(b) |-> 0]
    ELSE LET z == CHOOSE k \in 1..Len(b) : b[k] = 0 /\ \A j \in (k + 1)..Len(b) : b[j] = 1
         IN  [k \in 1..Len(b) |-> IF k < z THEN b[k] ELSE IF k = z THEN 1 ELSE 0]

\* Round to nearest, ties to even: p is a bit string of at least 53 bits
\* with a leading 1, worth p * 2^exp, and sticky says that the exact value
\* has further nonzero digits below p.
F64Round(p, exp, sticky) ==
  LET kept == SubSeq(p, 1, F64Precision)
      t == Len(p) - F64Precision
      up == /\ t > 0
            /\ p[F64Precision + 1] = 1
            /\ \/ \E j \in (F64Precision + 2)..Len(p) : p[j] = 1
               \/ sticky
               \/ kept[F64Precision] = 1
      m == IF up THEN BitsInc(kept) ELSE kept
  IN  IF Len(m) > F64Precision
        THEN [mant |-> SubSeq(m, 1, F64Precision), exp |-> exp + t + 1]
        ELSE [mant |-> m, exp |-> exp + t]

\* x / k for a double x and an integer 0 < k < 4096: the mantissa, with 18
\* zero bits below it, is divided in limbs of 18 bits, high to low, the
\* remainder of each limb carried into the next
DivLimb == 18
F64Div(x, k) ==
  IF x.mant = <<>> THEN F64Zero
  ELSE LET w == 2 ^ DivLimb
           v1 == BitsValue(x.mant, 1, F64Precision - 2 * DivLimb)
           v2 == (v1 % k) * w
                   + BitsValue(x.mant, F64Precision - 2 * DivLimb + 1, F64Precision - DivLimb)
           v3 == (v2 % k) * w + BitsValue(x.mant, F64Precision - DivLimb + 1, F64Precision)
           v4 == (v3 % k) * w
           q == StripZeros(FixedBits(v1 \div k, DivLimb) \o FixedBits(v2 \div k, DivLimb)
                             \o FixedBits(v3 \div k, DivLimb) \o FixedBits(v4 \div k, DivLimb))
       IN  F64Round(q, x.exp - DivLimb, v4 % k # 0)

\* the double of an integer 0 <= n < 2^31
F64OfInt(n) ==
  IF n = 0 THEN F64Zero
  ELSE LET b == BitsOf(n)
       IN  [mant |-> b \o [k \in 1..(F64Precision - Len(b)) |-> 0],
            exp |-> Len(b) - F64Precision]

\* the 53 bits m times an integer c, 0 < c <= 1000: the mantissa is
\* multiplied in limbs of 20 bits, low to high, with carries
F64Limb == 20
MulBits(m, c) ==
  LET w == 2 ^ F64Limb
      lo == BitsValue(m, F64Precision - F64Limb + 1, F64Precision) * c
      mid == BitsValue(m, F64Precision - 2 * F64Limb + 1, F64Precision - F64Limb) * c
               + lo \div w
      hi == BitsValue(m, 1, F64Precision - 2 * F64Limb) * c + mid \div w
  IN  BitsOf(hi) \o FixedBits(mid % w, F64Limb) \o FixedBits(lo % w, F64Limb)

\* x * c for a double x and an integer 0 < c <= 1000
F64Mul(x, c) ==
  IF x.mant = <<>> THEN F64Zero ELSE F64Round(MulBits(x.mant, c), x.exp, FALSE)

\* Math.round(x) for a double x >= 0 below 2^31: floor(x + 1/2)
F64MathRound(x) ==
  IF x.mant = <<>> THEN 0
  ELSE LET n == F64Precision + x.exp
       IN  IF n < 0 THEN 0
           ELSE IF n >= F64Precision THEN BitsValue(x.mant, 1, F64Precision) * (2 ^ x.exp)
           ELSE BitsValue(x.mant, 1, n) + x.mant[n + 1]

\* Math.pow(10, d)
Pow10(d) == 10 ^ d

\* function round(n, d)
round(n, d) == F64Div(F64OfInt(F64MathRound(F64Mul(n, Pow10(d)))), Pow10(d))

\* ------------------------------------------------------- the Route Store
\* precompute_routes.js: the feature pushed for resort i, r.id being i
RouteFeature(i) ==
  [resort_id |-> i,
   name |-> resortName[i],
   duration_sec |-> F64OfInt(route[i].duration),
   duration_min |->
     F64Div(F64OfInt(F64MathRound(F64Mul(F64Div(F64OfInt(route[i].duration), 60), 10))), 10),
   distance_km |->
     F64Div(F64OfInt(F64MathRound(F64Mul(F64Div(F64OfInt(route[i].distance), 1000), 10))), 10),
   distance_m |-> NotANumber]

\* geo.features of a written Route Store file
StoreFeatures(file) == [k \in 1..Len(file) |-> RouteFeature(file[k])]

\* --------------------------------------------------------- the extractor
\* const name = (p.name != null) ? String(p.name) : null; names are strings,
\* sequences of code units, "" being falsy like null
TtNameResortId(p) == NumberToString(p.resort_id)
TtName(p) == p.name

TtHours(p) ==
  IF IsNumber(p.duration_sec) THEN F64Div(p.duration_sec, 3600)
  ELSE IF IsNumber(p.duration_min) THEN F64Div(p.duration_min, 60)
  ELSE NotANumber

TtKm(p) ==
  IF IsNumber(p.distance_km) THEN p.distance_km
  ELSE IF IsNumber(p.distance_m) THEN F64Div(p.distance_m, 1000)
  ELSE NotANumber

\* ttMap[name] = {...}: a new key goes last, a present key keeps its place
TtPut(map, entry) ==
  IF \E k \in 1..Len(map) : map[k].name = entry.name
    THEN [map EXCEPT ![CHOOSE k \in 1..Len(map) : map[k].name = entry.name] = entry]
    ELSE Append(map, entry)

\* for (const f of feats) { ... }
RECURSIVE TtFold(_, _, _)
TtFold(fs, i, map) ==
  IF i > Len(fs) THEN map
  ELSE LET p == fs[i]
           name == TtName(p)
           hours == TtHours(p)
           km == TtKm(p)
       IN  IF name = <<>> THEN TtFold(fs, i + 1, map)
           ELSE IF ~IsNumber(hours) \/ ~IsNumber(km) THEN TtFold(fs, i + 1, map)
           ELSE TtFold(fs, i + 1,
                       TtPut(map, [name |-> name, hours |-> round(hours, 2),
                                   km |-> round(km, 1)]))

\* ---------------------------------------------- the chain for one home
\* The resort lists and engine answers tried (seconds and metres):
\* every resort named "X" and routed in 600 s over 9000 m; the resorts named
\* "X", "Y", "Z" in turn, the last one routed in 522 s over 1050 m; and
\* named in turn but for the first, whose name is empty.
SameName == [i \in Resorts |-> <<88>>]
OwnName == [i \in Resorts |-> <<87 + i>>]
FirstUnnamed == [i \in Resorts |-> IF i = 1 THEN <<>> ELSE <<87 + i>>]
ScenarioRoute == [i \in Resorts |-> [duration |-> 600, distance |-> 9000]]
LastShort ==
  [i \in Resorts |-> IF i = nResorts THEN [duration |-> 522, distance |-> 1050]
                                     ELSE [duration |-> 600, distance |-> 9000]]
TravelInputs == {<<SameName, ScenarioRoute>>, <<OwnName, LastShort>>, <<FirstUnnamed, ScenarioRoute>>}

TtInit ==
  /\ \E inp \in TravelInputs : resortName = inp[1] /\ route = inp[2]
  /\ ttFile = <<>>
  /\ ttpc = "ready"
  /\ ttRuns = 0
  /\ ttLast = <<>>

\* The travel-time file after one pass of the loop body over the home:
\* if (!fs.existsSync(inFile)) continue;
\* if (!force && fs.existsSync(outFile)) continue;
\* ... fs.writeFileSync(outFile, JSON.stringify(ttMap, null, 2))
TtWriteMerges(prev, force, store) ==
  IF store = <<>> THEN prev
  ELSE IF ~force /\ prev # <<>> THEN prev
  ELSE IF prev # <<>> THEN <<prev[1] \o TtFold(StoreFeatures(store[1]), 1, <<>>)>>
  ELSE <<TtFold(StoreFeatures(store[1]), 1, <<>>)>>
TtWrite(prev, force, store) ==
  IF store = <<>> THEN prev
  ELSE IF ~force /\ prev # <<>> THEN prev
  ELSE <<TtFold(StoreFeatures(store[1]), 1, <<>>)>>

\* One run of the extractor over the home, after the acquisition has ended:
\* the route file may be missing, the output may exist already (skipped
\* unless --force).
Extract(force) ==
  /\ ttpc \in {"ready", "ran"}
  /\ mainpc = "exited"
  /\ ttRuns < MaxExtractRuns
  /\ ttpc' = "ran"
  /\ ttRuns' = ttRuns + 1
  /\ ttLast' = <<[force |-> force, store |-> outFile]>>
  /\ ttFile' = TtWrite(ttFile, force, outFile)
  /\ UNCHANGED <<resortName, route, acqVars, corrVars, rsVars, keyVars, preVars, netVars, ldVars>>

InitTravel ==
  /\ AcqInit /\ nResorts <= MaxResortsTravel /\ limit = MaxLimit
  /\ CorrIdle /\ RsIdle /\ KeyIdle /\ TtInit /\ PreIdle /\ NetIdle /\ LdIdle
NextTravel == AcqNext \/ (\E force \in BOOLEAN : Extract(force))
SpecTravel == InitTravel /\ [][NextTravel]_vars

\* The pipeline for one home, run again: acquisition, extraction, and a
\* second acquisition over the same resort list followed by extraction.
InitPipeline ==
  /\ AcqInit /\ nResorts <= MaxResortsPipeline /\ limit = MaxLimit
  /\ CorrIdle /\ RsIdle /\ KeyIdle /\ TtInit /\ PreIdle /\ NetIdle /\ LdIdle
NextPipeline == AcqNext \/ Rerun \/ (\E force \in BOOLEAN : Extract(force))
SpecPipeline == InitPipeline /\ [][NextPipeline]_vars

\* =========================================================================
\* js/homeTravelTimes.js
\* =========================================================================
Homes == 1..MaxHomes

\* applyIfReady(hid, ttMap), ttMap being the map of home hid: what becomes
\* of pendingHomeId, cache and the map applied, given the cache to start from
applyIfReady(hid, cache0) ==
  IF ~resortsReady
    THEN /\ pendingHomeId' = hid
         /\ cache' = cache0 \cup {hid}
         /\ applied' = applied
    ELSE /\ applied' = hid
         /\ cache' = cache0
         /\ pendingHomeId' = pendingHomeId

\* mod.load(homeId) up to its return or its await
Load(h) ==
  /\ loads < MaxLoads
  /\ loads' = loads + 1
  /\ requested' = h
  /\ IF h \in cache
       THEN /\ applyIfReady(h, cache)
            /\ fetching' = fetching
       ELSE /\ fetching' = [fetching EXCEPT ![h] = @ + 1]
            /\ UNCHANGED <<cache, pendingHomeId, applied>>
  /\ UNCHANGED <<resortsReady, acqVars, corrVars, rsVars, keyVars, ttVars, preVars, netVars>>

\* a fetch of the file of home h completes: load resumes after its await
\* with cache[hid] = data; applyIfReady(hid, data)
FetchDone(h) ==
  /\ fetching[h] > 0
  /\ fetching' = [fetching EXCEPT ![h] = @ - 1]
  /\ applyIfReady(h, cache \cup {h})
  /\ UNCHANGED <<resortsReady, requested, loads,
                 acqVars, corrVars, rsVars, keyVars, ttVars, preVars, netVars>>

\* a fetch fails (!r.ok, network error): fetchJson throws, load rejects
FetchFails(h) ==
  /\ fetching[h] > 0
  /\ fetching' = [fetching EXCEPT ![h] = @ - 1]
  /\ UNCHANGED <<cache, pendingHomeId, resortsReady, applied, requested, loads,
                 acqVars, corrVars, rsVars, keyVars, ttVars, preVars, netVars>>

\* the page has loaded the resorts: it sets window.__resortsReady and calls
\* mod.onResortsReady()
OnResortsReady ==
  /\ ~resortsReady
  /\ resortsReady' = TRUE
  /\ IF pendingHomeId = 0
       THEN UNCHANGED <<pendingHomeId, applied>>
       ELSE /\ pendingHomeId' = 0
            /\ applied' = IF pendingHomeId \in cache THEN pendingHomeId ELSE applied
  /\ UNCHANGED <<cache, fetching, requested, loads,
                 acqVars, corrVars, rsVars, keyVars, ttVars, preVars, netVars>>

LdInit ==
  /\ cache = {}
  /\ pendingHomeId = 0
  /\ resortsReady \in BOOLEAN
  /\ applied = 0
  /\ fetching = [h \in Homes |-> 0]
  /\ requested = 0
  /\ loads = 0
InitLoader ==
  AcqIdle /\ CorrIdle /\ RsIdle /\ KeyIdle /\ TtIdle /\ PreIdle /\ NetIdle /\ LdInit
NextLoader ==
  \/ \E h \in Homes : Load(h)
  \/ \E h \in Homes : FetchDone(h)
  \/ \E h \in Homes : FetchFails(h)
  \/ OnResortsReady
SpecLoader == InitLoader /\ [][NextLoader]_vars

\* =========================================================================
\* precompute_routes.js: main() before the pool starts
\* =========================================================================
\* The JSON value of a lat or lon member: a number (whole degrees), null, a
\* string that is no number, or the member missing (undefined).
JNumber(n) == [kind |-> "number", num |-> n]
JNull == [kind |-> "null", num |-> 0]
JText == [kind |-> "string", num |-> 0]
JMissing == [kind |-> "undefined", num |-> 0]

\* Number(v): null converts to 0, a non-numeric string and undefined to NaN
NumberNaN == [nan |-> TRUE, num |-> 0]
Number(v) ==
  IF v.kind = "number" THEN [nan |-> FALSE, num |-> v.num]
  ELSE IF v.kind = "null" THEN [nan |-> FALSE, num |-> 0]
  ELSE NumberNaN

\* validateLatLon returns (TRUE) or throws (FALSE)
validateLatLon(lat, lon) ==
  /\ ~lat.nan /\ ~lon.nan
  /\ ~(lat.num < -90 \/ lat.num > 90)
  /\ ~(lon.num < -180 \/ lon.num > 180)

\* parseOriginStr over the parts of String(s).split(","): <<>> when it throws
parseOriginStr(parts) ==
  IF Len(parts) # 2 THEN <<>>
  ELSE IF ~validateLatLon(Number(parts[1]), Number(parts[2])) THEN <<>>
  ELSE <<[lat |-> Number(parts[1]), lon |-> Number(parts[2])]>>

\* loadHomes: <<>> when readJson or a check throws, else <<homes>>, homes
\* being the entries in the order of the file
loadHomes(file) ==
  IF file.kind # "map" THEN <<>>
  ELSE IF \A k \in 1..Len(file.entries) :
            /\ file.entries[k].obj
            /\ validateLatLon(Number(file.entries[k].lat), Number(file.entries[k].lon))
    THEN <<file.entries>>
  ELSE <<>>

\* Object.keys(homes).sort()
RECURSIVE InsertHome(_, _)
InsertHome(sorted, h) ==
  IF Len(sorted) = 0 THEN <<h>>
  ELSE IF ~StringLess(h.id, sorted[Len(sorted)].id) THEN Append(sorted, h)
  ELSE Append(InsertHome(SubSeq(sorted, 1, Len(sorted) - 1), h), sorted[Len(sorted)])
RECURSIVE SortHomes(_, _)
SortHomes(homes, i) ==
  IF i = 0 THEN <<>> ELSE InsertHome(SortHomes(homes, i - 1), homes[i])

\* formatHomesList: one line "- id: lat,lon" per home, or "(no homes found)"
NoHomesFound == [id |-> <<>>, lat |-> JMissing, lon |-> JMissing]
HomeLine(h) == [id |-> h.id, lat |-> h.lat, lon |-> h.lon]
formatHomesListFirstOnly(homes) ==
  IF Len(homes) = 0 THEN <<NoHomesFound>>
  ELSE <<HomeLine(SortHomes(homes, Len(homes))[1])>>
formatHomesList(homes) ==
  IF Len(homes) = 0 THEN <<NoHomesFound>>
  ELSE [k \in 1..Len(homes) |-> HomeLine(SortHomes(homes, Len(homes))[k])]

\* homes[homeId]: <<>> when undefined
HomeOf(homes, id) ==
  IF \E k \in 1..Len(homes) : homes[k].id = id
    THEN <<homes[CHOOSE k \in 1..Len(homes) : homes[k].id = id]>>
    ELSE <<>>

\* parseOriginStr("48.137,11.575")
DefaultOrigin == <<JNumber(48), JNumber(11)>>

\* The origin main() determines: <<>> when it throws or exits
DetermineOrigin ==
  IF originArg # <<>> THEN parseOriginStr(originArg[1])
  ELSE IF homesFile # <<>>
    THEN LET homes == loadHomes(homesFile[1])
         IN  IF homes = <<>> THEN <<>>
             ELSE IF HomeOf(homes[1], homeId) = <<>> THEN <<>>
             ELSE <<[lat |-> Number(HomeOf(homes[1], homeId)[1].lat),
                     lon |-> Number(HomeOf(homes[1], homeId)[1].lon)]>>
  ELSE parseOriginStr(DefaultOrigin)

\* process.exit(code), or an exception reaching main().catch (code 1)
Exit(code, out) ==
  /\ mainpc' = "exited"
  /\ exitCode' = code
  /\ printed' = out
  /\ UNCHANGED <<nResorts, limit, nextItem, executing, item, feats, ok, fail,
                 outFile, prevFile, origin>>

\* main() from its first line to the call of asyncPool
Preflight ==
  /\ mainpc = "launch"
  /\ IF listHomes
       THEN IF homesFile = <<>> THEN Exit(1, <<>>)
            ELSE IF loadHomes(homesFile[1]) = <<>> THEN Exit(1, <<>>)
            ELSE Exit(0, formatHomesList(loadHomes(homesFile[1])[1]))
       ELSE IF DetermineOrigin = <<>> THEN Exit(1, <<>>)
            ELSE IF ~resortsReadable THEN Exit(1, <<>>)
            ELSE /\ mainpc' = "start"
                 /\ origin' = DetermineOrigin
                 /\ UNCHANGED <<nResorts, limit, nextItem, executing, item, feats,
                                ok, fail, outFile, exitCode, prevFile, printed>>
  /\ UNCHANGED <<listHomes, originArg, homesFile, homeId, resortsReadable, resortPos>>
  /\ UNCHANGED <<corrVars, rsVars, keyVars, ttVars, netVars, ldVars>>

\* ------------------------------------------------- the command lines tried
\* home ids "lju" and "muc"
Lju == <<108, 106, 117>>
Muc == <<109, 117, 99>>
HomeLats == {JNumber(48), JNumber(91), JNull, JText, JMissing}
HomeLons == {JNumber(11), JNumber(181)}
LjuEntry == [id |-> Lju, obj |-> TRUE, lat |-> JNumber(46), lon |-> JNumber(14)]
MucEntries == {[id |-> Muc, obj |-> TRUE, lat |-> la, lon |-> lo] : la \in HomeLats, lo \in HomeLons}
NoObjectEntry == [id |-> Muc, obj |-> FALSE, lat |-> JMissing, lon |-> JMissing]
HomesFiles ==
  {[kind |-> "map", entries |-> <<m, LjuEntry>>] : m \in MucEntries}
    \cup {[kind |-> "map", entries |-> <<LjuEntry>>],
          [kind |-> "map", entries |-> <<>>],
          [kind |-> "map", entries |-> <<LjuEntry, NoObjectEntry>>],
          [kind |-> "array", entries |-> <<>>],
          [kind |-> "unreadable", entries |-> <<>>]}
OriginArgs ==
  {<<>>, <<<<JNumber(47), JNumber(12)>>>>, <<<<JNumber(91), JNumber(12)>>>>}
ResortPositions == {[lat |-> 47, lon |-> 11], [lat |-> 95, lon |-> 11]}

PreInit ==
  /\ listHomes \in BOOLEAN
  /\ originArg \in OriginArgs
  /\ homesFile \in {<<>>} \cup {<<f>> : f \in HomesFiles}
  /\ homeId \in {Lju, Muc}
  /\ resortsReadable \in BOOLEAN
  /\ resortPos \in [Resorts -> ResortPositions]
  /\ origin = <<>>
  /\ printed = <<>>

\* the process has been launched
AcqLaunch ==
  /\ nResorts \in 0..MaxResortsPreflight
  /\ limit = MaxLimit
  /\ nextItem = 1
  /\ executing = <<>>
  /\ item = [i \in Resorts |-> IdleItem]
  /\ feats = <<>>
  /\ ok = 0
  /\ fail = 0
  /\ mainpc = "launch"
  /\ outFile = <<>>
  /\ exitCode = -1
  /\ prevFile = <<>>

InitPreflight ==
  /\ AcqLaunch /\ CorrIdle /\ RsIdle /\ KeyIdle /\ TtIdle /\ PreInit /\ NetIdle /\ LdIdle
NextPreflight == Preflight \/ AcqNext
SpecPreflight == InitPreflight /\ [][NextPreflight]_vars

\* ------------------------------------------------ the run under fairness
\* Every response the engine owes arrives and every timer fires; the
\* request of the resort `stuck`, if there is one, never completes.
InitNet ==
  /\ AcqInit /\ nResorts <= MaxResortsNet
  /\ CorrIdle /\ RsIdle /\ KeyIdle /\ TtIdle /\ PreIdle
  /\ stuck \in 0..nResorts
  /\ LdIdle
NextNet == AcqNext
SpecNet == InitNet /\ [][NextNet]_vars /\ WF_vars(NextNet)


\* ======================================================== acquisition claims
InFlight == {i \in Resorts : item[i].phase \in {"fetch", "sleep"}}
Stored == {i \in Resorts : item[i].phase = "stored"}
Skipped == {i \in Resorts : item[i].phase = "skipped"}
Occurrences(f, i) == Cardinality({k \in 1..Len(f) : f[k] = i})

\* All four attempts of resort i have failed with an HTTP error or an
\* unparseable body, and its worker is over.
Exhausted(i) ==
  /\ item[i].attempt = MaxAttempts
  /\ item[i].phase \notin {"idle", "fetch", "sleep"}
  /\ item[i].last \in ErrorKinds

\* C1: the number of resorts whose processing has started and not finished
\* (request in flight or waiting in backoff) never exceeds the limit.
C1_BoundedConcurrency == Cardinality(InFlight) <= limit

\* C1 witness: the pool is full again after a completion refilled it, with
\* one worker in backoff.
C1_Witness ==
  /\ limit = 2
  /\ Cardinality(InFlight) = 2
  /\ \E i \in Resorts : Settled(item[i])
  /\ \E i \in Resorts : item[i].phase = "sleep" /\ item[i].attempt >= 2

\* C2 (as claimed): at most 4 attempts per resort, none after a success, and
\* a resort is skipped only after 4 attempts that each failed with an HTTP
\* error or an unparseable body.
C2_SkippedOnlyAfterFourErrors ==
  \A i \in Resorts :
    /\ item[i].attempt <= MaxAttempts
    /\ item[i].phase = "skipped" => item[i].attempt = MaxAttempts /\ item[i].last \in ErrorKinds

\* C3: every resort ends in exactly one outcome: one record (counted in ok)
\* or none (counted in fail); never two records; at the end ok + fail is the
\* number of resorts and ok the number of records written.
C3_OneOutcomePerResort ==
  /\ \A i \in Resorts : Occurrences(feats, i) = (IF item[i].phase = "stored" THEN 1 ELSE 0)
  /\ ok = Cardinality(Stored)
  /\ fail = Cardinality(Skipped)
  /\ mainpc = "exited" =>
       /\ outFile = <<feats>>
       /\ \A i \in Resorts : Settled(item[i])
       /\ ok + fail = nResorts
       /\ ok = Len(outFile[1])

\* C3 witness: a finished run with a stored resort that needed a retry and a
\* resort skipped after its last attempt.
C3_Witness ==
  /\ mainpc = "exited"
  /\ \E i \in Resorts : item[i].phase = "stored" /\ item[i].attempt >= 2
  /\ \E i \in Resorts : item[i].phase = "skipped" /\ item[i].attempt = MaxAttempts

SecondRunDone == mainpc = "exited" /\ exitCode = 0 /\ prevFile # <<>>

\* C4 (as claimed): two runs over the same list in which the same requests
\* succeed write the same sequence of features.
C4_SameSequence ==
  (SecondRunDone /\ Range(prevFile[1]) = Range(outFile[1])) => outFile = prevFile

\* C4 (amended): the written features are the stored resorts, once each, in
\* the order in which their requests completed: each success appends its
\* feature at the end of feats, and the file written is feats.  Two runs with
\* the same successes write the same set of features, in completion order.
C4_CompletionOrder ==
  [][/\ (mainpc' = "exited" /\ exitCode' = 0) =>
          (Range(outFile'[1]) = Stored' /\ Len(outFile'[1]) = Cardinality(Stored'))
     /\ (feats' # feats /\ mainpc # "exited") =>
          \E i \in Resorts : /\ item[i].phase = "fetch"
                             /\ item'[i].phase = "stored"
                             /\ feats' = Append(feats, i)
     /\ (outFile' # outFile) => outFile' = <<feats'>>]_vars

\* C4 witness: the second run stored the same resorts as the first and
\* wrote them in another order.
C4_Witness ==
  /\ SecondRunDone
  /\ Len(prevFile[1]) >= 2
  /\ Range(prevFile[1]) = Range(outFile[1])
  /\ outFile # prevFile

\* C5 (as claimed): a parseable body without a route or without geometry is
\* retried, so a resort is skipped for it only after 4 attempts.
C5_NoGeometryIsRetried ==
  \A i \in Resorts :
    (item[i].phase = "skipped" /\ item[i].last \in {"noRoutes", "noGeometry"})
      => item[i].attempt = MaxAttempts

\* C6: a resort whose 4 attempts all failed does not abort the run: the run
\* never exits with 1, it can always go on until it exits, and at exit every
\* resort is settled, the file holds the stored resorts, fail counts the
\* skipped ones and the exit code is 0.
C6_FailureDoesNotAbort ==
  (\E i \in Resorts : Exhausted(i)) =>
    /\ exitCode \in {-1, 0}
    /\ mainpc # "exited" => ENABLED AcqNext
    /\ mainpc = "exited" =>
         /\ exitCode = 0
         /\ \A j \in Resorts : Settled(item[j])
         /\ outFile # <<>>
         /\ Range(outFile[1]) = Stored
         /\ fail = Cardinality(Skipped)

\* C6 witness: with limit 1 the first resort failed 4 times, the second was
\* requested afterwards and stored, and the run exited.
C6_Witness ==
  /\ limit = 1
  /\ nResorts >= 2
  /\ Exhausted(1)
  /\ item[2].phase = "stored"
  /\ mainpc = "exited"

\* =========================================================== corridor claims
\* the unordered cell pair of a segment key
PairOf(key) == {KeyCells(key)[1], KeyCells(key)[2]}
\* the output line of a segment key
EdgeLine(key, g) ==
  <<cellCenter(KeyCells(key)[1].cx, KeyCells(key)[1].cy, g),
    cellCenter(KeyCells(key)[2].cx, KeyCells(key)[2].cy, g)>>
\* the unordered cell pairs the resampled path of feature f crosses
CrossedPairs(f) ==
  IF f.geometryType # "LineString" THEN {}
  ELSE LET sm == resampleLineWithProgress(f.coordinates, stepM)
       IN  {p \in {{cellId(sm[i].coord[1], sm[i].coord[2], gridM),
                    cellId(sm[i + 1].coord[1], sm[i + 1].coord[2], gridM)} :
                      i \in 1..(Len(sm) - 1)} : Cardinality(p) = 2}

\* C7: the output holds an edge exactly when its accumulated count is at
\* least minCount, with or without duration samples.
C7_FilterByMinCount ==
  corrpc = "done" =>
    LET out == corrOut[1].features
    IN  /\ \A k \in 1..Len(out) : out[k].count >= minCount
        /\ \A s \in 1..Len(segments) :
             (segments[s].count >= minCount) <=>
               \E k \in 1..Len(out) : /\ out[k].coordinates = EdgeLine(segments[s].key, gridM)
                                      /\ out[k].count = segments[s].count
        /\ Len(out) = Cardinality({s \in 1..Len(segments) : segments[s].count >= minCount})

\* C7 witness: minCount 3, two routes that each crossed one cell pair once
\* (count 2, not in the output), and an edge of count >= 3 in the output.
C7_Witness ==
  /\ corrpc = "done"
  /\ minCount = 3
  /\ Len(folded) = 2
  /\ \E s \in 1..Len(segments) :
       /\ segments[s].count = 2
       /\ \A r \in 1..2 : PairOf(segments[s].key) \in CrossedPairs(folded[r])
       /\ \A k \in 1..Len(corrOut[1].features) :
            corrOut[1].features[k].coordinates # EdgeLine(segments[s].key, gridM)
  /\ \E k \in 1..Len(corrOut[1].features) : corrOut[1].features[k].duration_min = Null

\* C8 (as claimed): the count of an edge is the number of distinct routes
\* whose resampled path crosses its cell pair.
C8_CountIsDistinctRoutes ==
  \A s \in 1..Len(segments) :
    segments[s].count =
      Cardinality({r \in 1..Len(folded) : PairOf(segments[s].key) \in CrossedPairs(folded[r])})

\* C9: the key is symmetric and tells unordered cell pairs apart; after any
\* crossings there is one record per unordered cell pair crossed, its count
\* the number of crossings in either direction.
C9_OneRecordPerPair ==
  /\ \A a \in SampleCells : \A b \in SampleCells \ {a} :
       undirectedKey(a, b) = undirectedKey(b, a)
  /\ \A a \in SampleCells : \A b \in SampleCells \ {a} :
       \A c \in SampleCells : \A d \in SampleCells \ {c} :
         undirectedKey(a, b) = undirectedKey(c, d) => {a, b} = {c, d}
  /\ \A i \in 1..Len(segments) : \A j \in 1..Len(segments) :
       i # j => PairOf(segments[i].key) # PairOf(segments[j].key)
  /\ \A k \in 1..Len(crossed) :
       \E i \in 1..Len(segments) :
         /\ PairOf(segments[i].key) = {crossed[k][1], crossed[k][2]}
         /\ segments[i].count =
              Cardinality({m \in 1..Len(crossed) :
                             {crossed[m][1], crossed[m][2]} = {crossed[k][1], crossed[k][2]}})
  /\ Len(segments) = Cardinality({{crossed[k][1], crossed[k][2]} : k \in 1..Len(crossed)})

\* C9 witness: a pair with a negative index crossed in both directions is
\* one record of count 2, next to a pair whose keys order 10 before 9.
C9_Witness ==
  /\ Len(crossed) = 3
  /\ crossed[1] = <<[cx |-> -1, cy |-> 0], [cx |-> 0, cy |-> -1]>>
  /\ crossed[2] = <<[cx |-> 0, cy |-> -1], [cx |-> -1, cy |-> 0]>>
  /\ crossed[3] = <<[cx |-> 9, cy |-> 0], [cx |-> 10, cy |-> 0]>>
  /\ Len(segments) = 2
  /\ segments[1].count = 2
  /\ segments[2].key = undirectedKey([cx |-> 10, cy |-> 0], [cx |-> 9, cy |-> 0])

\* C10 (as claimed): for a line of at least 2 vertices and length > 0 the
\* progress values start at 0, never decrease and end at 1.
C10_ProgressZeroToOne ==
  (rspc = "returned" /\ Len(rsCoords) >= 2 /\ TotalLen(rsCoords, 1) > 0) =>
    /\ Len(rsOut) >= 1
    /\ rsOut[1].progress = Num(0)
    /\ \A i \in 1..(Len(rsOut) - 1) : ~RatLess(rsOut[i + 1].progress, rsOut[i].progress)
    /\ rsOut[Len(rsOut)].progress = Num(1)

\* ========================================================== resampler claims
\* the point of the line at arc length s from its first vertex
RECURSIVE PathAtFrom(_, _, _)
PathAtFrom(coords, i, s) ==
  IF i > Len(coords) - 1 THEN coords[Len(coords)]
  ELSE IF s <= SegLen(coords, i)
    THEN IF SegLen(coords, i) = 0 THEN coords[i]
         ELSE lerpCoord(coords[i], coords[i + 1], s, SegLen(coords, i))
    ELSE PathAtFrom(coords, i + 1, s - SegLen(coords, i))
PathAt(coords, s) == PathAtFrom(coords, 1, s)

\* a call on a line of at least 2 vertices and length > 0 has returned
ResampledRoute == rspc = "returned" /\ Len(rsCoords) >= 2 /\ TotalLen(rsCoords, 1) > 0

\* C11 (as claimed): every resampled point lies on the line at the arc
\* length its progress states: progress = arc length to the point / total.
C11_ProgressIsArcFraction ==
  ResampledRoute =>
    \A k \in 1..Len(rsOut) :
      \E s \in 0..TotalLen(rsCoords, 1) :
        /\ PathAt(rsCoords, s) = rsOut[k].coord
        /\ rsOut[k].progress = Rat(s, TotalLen(rsCoords, 1))

\* the arc lengths at which point k can lie when the points before it are
\* rsStep apart along the line, the first at 0
RECURSIVE StepPositions(_)
StepPositions(k) ==
  IF k = 1 THEN {s \in {0} : PathAt(rsCoords, s) = rsOut[1].coord}
  ELSE {s \in 0..TotalLen(rsCoords, 1) :
          /\ PathAt(rsCoords, s) = rsOut[k].coord
          /\ (s - rsStep) \in StepPositions(k - 1)}

\* C12 (as claimed): consecutive resampled points are rsStep apart along the
\* line, except the last, which is at most rsStep after its predecessor.
C12_StepApart ==
  (ResampledRoute /\ Len(rsOut) >= 2) =>
    \E s \in 0..TotalLen(rsCoords, 1) :
      /\ PathAt(rsCoords, s) = rsOut[Len(rsOut)].coord
      /\ \E t \in StepPositions(Len(rsOut) - 1) : t <= s /\ s - t <= rsStep

\* C13: the resampled sequence starts at the first vertex and ends at the
\* final vertex; when the line reaches the coordinate of its final vertex
\* only at its end, that coordinate occurs exactly once in the sequence.
C13_EndsAtFinalVertexOnce ==
  ResampledRoute =>
    LET last == rsCoords[Len(rsCoords)]
    IN  /\ Len(rsOut) >= 1
        /\ rsOut[1].coord = rsCoords[1]
        /\ rsOut[Len(rsOut)].coord = last
        /\ (\A s \in 0..(TotalLen(rsCoords, 1) - 1) : PathAt(rsCoords, s) # last) =>
             Cardinality({k \in 1..Len(rsOut) : rsOut[k].coord = last}) = 1

\* C13 witness: one segment whose length is twice the step: the second step
\* falls on the final vertex, which is the third and last point.
C13_Witness ==
  /\ ResampledRoute
  /\ Len(rsCoords) = 2
  /\ TotalLen(rsCoords, 1) = 2 * rsStep
  /\ Len(rsOut) = 3
  /\ rsOut[3].coord = rsCoords[2]
  /\ rsOut[2].coord # rsCoords[2]

\* the smallest integer >= n / d
Ceil(n, d) == (n + d - 1) \div d
\* all vertices on one parallel or on one meridian
Collinear(coords) ==
  \/ \A i \in 1..Len(coords) : coords[i][1] = coords[1][1]
  \/ \A i \in 1..Len(coords) : coords[i][2] = coords[1][2]

\* C14 (as claimed): a line with all vertices on one straight line and length
\* L > 0 resamples at step S to ceil(L / S) or ceil(L / S) + 1 points.
C14_PointCount ==
  (ResampledRoute /\ Collinear(rsCoords)) =>
    \/ Len(rsOut) = Ceil(TotalLen(rsCoords, 1), rsStep)
    \/ Len(rsOut) = Ceil(TotalLen(rsCoords, 1), rsStep) + 1

\* ======================================================== aggregation claims
\* C15 (as claimed): every edge created by the fold joins two distinct cells
\* whose cx and cy each differ by at most 1.
C15_EdgesJoinAdjacentCells ==
  \A s \in 1..Len(segments) :
    LET cells == KeyCells(segments[s].key)
    IN  /\ cells[1] # cells[2]
        /\ Abs(cells[1].cx - cells[2].cx) <= 1
        /\ Abs(cells[1].cy - cells[2].cy) <= 1

Contributors(key) ==
  {r \in 1..Len(folded) : PairOf(key) \in CrossedPairs(folded[r])}

\* C17 (as claimed): an edge has no duration sample, and its output feature
\* has duration_min = null and duration_avg_min = null, exactly when none of
\* the routes crossing its cell pair has a numeric total duration.
C17_NullOnlyWithoutDuration ==
  /\ \A s \in 1..Len(segments) :
       (segments[s].durations = <<>>) <=>
          \A r \in Contributors(segments[s].key) :
            ~IsFinite(getDurationMin(folded[r].properties))
  /\ corrpc = "done" =>
       \A s \in 1..Len(segments) : \A k \in 1..Len(corrOut[1].features) :
         corrOut[1].features[k].coordinates = EdgeLine(segments[s].key, gridM) =>
           /\ (corrOut[1].features[k].duration_min = Null) <=>
                 \A r \in Contributors(segments[s].key) :
                   ~IsFinite(getDurationMin(folded[r].properties))
           /\ (corrOut[1].features[k].duration_avg_min = Null) <=>
                 (corrOut[1].features[k].duration_min = Null)

\* ======================================================== extractor claims
\* the resorts with a record in the Route Store file
InStore == IF outFile = <<>> THEN {} ELSE Range(outFile[1])
\* the travel-time file has been written
TableWritten == ttFile # <<>>

\* C18: every key of the travel-time table is the name of a record of the
\* Route Store; a resort without a record, whose name no record carries, has
\* no entry.
C18_KeysAreStoredNames ==
  TableWritten =>
    /\ \A k \in 1..Len(ttFile[1]) :
         \E i \in InStore : resortName[i] = ttFile[1][k].name
    /\ \A i \in Resorts \ InStore :
         (\A j \in InStore : resortName[j] # resortName[i]) =>
           \A k \in 1..Len(ttFile[1]) : ttFile[1][k].name # resortName[i]

\* C18 witness: resort 1 failed all its attempts and resort 2, of another
\* name, is stored: the table has the one entry of resort 2.
C18_Witness ==
  /\ TableWritten
  /\ nResorts = 2
  /\ Exhausted(1)
  /\ InStore = {2}
  /\ resortName[1] # resortName[2]
  /\ Len(ttFile[1]) = 1
  /\ ttFile[1][1].name = resortName[2]

\* C19 (as claimed): the table has one entry per record of the Route Store.
C19_OneEntryPerRecord ==
  TableWritten => Len(ttFile[1]) = Len(outFile[1])

\* the doubles nearest to d/3600 rounded half up to 2 decimals and to
\* m/1000 rounded half up to 1 decimal
ClaimedHours(d) == F64Div(F64OfInt((100 * d + 1800) \div 3600), 100)
ClaimedKm(m) == F64Div(F64OfInt((m + 50) \div 100), 10)

\* C20 (as claimed): every entry of the table carries, for a stored record
\* of its name with duration d and distance m, hours = d/3600 rounded to 2
\* decimals and km = m/1000 rounded to 1 decimal, half up.
C20_RoundedHoursAndKm ==
  TableWritten =>
    \A k \in 1..Len(ttFile[1]) :
      \E i \in InStore :
        /\ resortName[i] = ttFile[1][k].name
        /\ ttFile[1][k].hours = ClaimedHours(route[i].duration)
        /\ ttFile[1][k].km = ClaimedKm(route[i].distance)

\* the table the extractor derives from the Route Store on disk
TableOfStore == <<TtFold(StoreFeatures(outFile[1]), 1, <<>>)>>

\* C21: a run of the extractor leaves the Route Store as it was, and a run
\* that follows a run with the same --force setting over the same Route
\* Store leaves the travel-time file with the content it had after that run.
C21_SecondRunSameOutput ==
  [][ttRuns' = ttRuns + 1 =>
       /\ outFile' = outFile
       /\ (ttLast # <<>> /\ ttLast[1].store = outFile /\ ttLast'[1].force = ttLast[1].force)
            => ttFile' = ttFile]_vars
\* two runs over one Route Store of one record, the second forced, the
\* table written
C21_Witness ==
  /\ ttRuns = 2
  /\ prevFile = <<>>
  /\ ttLast[1].force
  /\ Len(outFile[1]) = 1
  /\ TableWritten
  /\ Len(ttFile[1]) = 1

\* C22 (as claimed): once the extractor has run over the Route Store the
\* acquisition wrote, the travel-time file is the table derived from that
\* Route Store.
C22_TableOfThisRun ==
  (mainpc = "exited" /\ ttLast # <<>> /\ ttLast[1].store = outFile) => ttFile = TableOfStore

\* ---------------------------------------------------------- the pre-flight
RequestIssued == \E i \in Resorts : item[i].attempt > 0
OutOfRange(pos) == pos.lat < -90 \/ pos.lat > 90 \/ pos.lon < -180 \/ pos.lon > 180

\* C23 (as claimed): a run over a resort list with an entry whose latitude
\* or longitude is out of range issues no route request and ends with a
\* non-zero exit code.
C23_BadResortAborts ==
  (~listHomes /\ \E i \in Resorts : OutOfRange(resortPos[i])) =>
    /\ ~RequestIssued
    /\ mainpc = "exited" => exitCode # 0

\* the home selected by --homeId in a homes file that is an object map
SelectedHome == HomeOf(homesFile[1].entries, homeId)
BadCoordinate(v, low, high) == v.kind # "number" \/ v.num < low \/ v.num > high
\* C24 (as claimed): with the origin taken from the homes file, a selected
\* home whose lat/lon is non-numeric or out of range, a --homeId that is no
\* key of the file, or an unreadable resort list ends the run with a
\* non-zero exit code, without a route request and without a Route Store.
C24_PreflightAborts ==
  (/\ ~listHomes /\ originArg = <<>> /\ homesFile # <<>>
   /\ \/ ~resortsReadable
      \/ /\ homesFile[1].kind = "map"
         /\ \/ SelectedHome = <<>>
            \/ /\ SelectedHome # <<>>
               /\ \/ BadCoordinate(SelectedHome[1].lat, -90, 90)
                  \/ BadCoordinate(SelectedHome[1].lon, -180, 180))
    => /\ mainpc = "exited" => exitCode # 0
       /\ ~RequestIssued
       /\ outFile = <<>>

\* a homes file that is an object map of objects with numeric lat/lon in range
ValidHomesFile ==
  /\ homesFile # <<>>
  /\ homesFile[1].kind = "map"
  /\ \A k \in 1..Len(homesFile[1].entries) :
       /\ homesFile[1].entries[k].obj
       /\ ~BadCoordinate(homesFile[1].entries[k].lat, -90, 90)
       /\ ~BadCoordinate(homesFile[1].entries[k].lon, -180, 180)
\* C25: with --listHomes and a valid homes file the run issues no route
\* request and writes no Route Store, and when it has ended it has printed
\* every home id of the file and its exit code is 0.
C25_ListHomes ==
  (listHomes /\ ValidHomesFile) =>
    /\ mainpc \in {"launch", "exited"}
    /\ ~RequestIssued
    /\ outFile = <<>>
    /\ mainpc = "exited" =>
         /\ exitCode = 0
         /\ \A k \in 1..Len(homesFile[1].entries) :
              \E l \in 1..Len(printed) : printed[l].id = homesFile[1].entries[k].id
\* the list of a file holding "muc" before "lju" has been printed
C25_Witness ==
  /\ listHomes /\ ValidHomesFile
  /\ mainpc = "exited"
  /\ Len(homesFile[1].entries) = 2
  /\ homesFile[1].entries[1].id = Muc
  /\ Len(printed) = 2
  /\ printed[1].id = Lju

\* ------------------------------------------------- the write and the pool
AllTerminal == \A i \in Resorts : item[i].phase \in {"stored", "skipped"}

\* C26: the Route Store is written only when the run ends, after every
\* resort is stored or skipped, and holds the features pushed; when every
\* request attempt completes, it is eventually written.
C26_WrittenOnceAtEnd ==
  /\ [](outFile # <<>> => (mainpc = "exited" /\ AllTerminal /\ outFile = <<feats>>))
  /\ (stuck = 0 => <>(outFile # <<>>))
\* the file written after a resort was stored and another skipped
C26_Witness ==
  /\ stuck = 0
  /\ outFile # <<>>
  /\ nResorts = 3
  /\ Stored # {}
  /\ Skipped # {}

\* C27 (as claimed): a backoff delay is only ever waited after one of the
\* first three failed attempts, so no resort is in its delay after its 4th.
C27_DelayOnlyBetweenAttempts ==
  \A i \in Resorts : item[i].phase = "sleep" => item[i].attempt < MaxAttempts

\* C28: with a concurrency of 2 or more and one request that never
\* completes, every other resort is eventually stored or skipped.
C28_OthersComplete ==
  (limit >= 2 /\ stuck # 0) =>
    <>(\A i \in Resorts \ {stuck} : item[i].phase \in {"stored", "skipped"})
\* the two other resorts have completed beside the stuck request of the first
C28_Witness ==
  /\ limit = 2
  /\ stuck = 1
  /\ nResorts = 3
  /\ item[1].phase = "fetch"
  /\ item[2].phase \in {"stored", "skipped"}
  /\ item[3].phase \in {"stored", "skipped"}

\* C29 (as claimed): for every line and every --step the command line
\* accepts, 0 and negative values included, the call of the resampler
\* returns (it does not go on pushing points until the memory is exhausted).
C29_ResamplerReturns == <>(rspc = "returned")

\* C30 (as claimed): when the resorts are ready and no fetch is under way,
\* the map last applied is that of the home load was last called for, if
\* its file has been fetched.
C30_LatestHomeApplied ==
  (/\ resortsReady
   /\ \A h \in Homes : fetching[h] = 0
   /\ requested # 0
   /\ requested \in cache)
    => applied = requested

=============================================================================
